---- MODULE Spec2Model ----
(***************************************************************************)
(* Model of jobs/tasks_runner.py: the dependency gate (depend_on), the     *)
(* command runner (_run), the cluster bootstrap (configure_cluster) and    *)
(* the task dispatch under __main__.                                       *)
(*                                                                         *)
(* Python values are modelled as follows.                                  *)
(*   - An optional value (None or a value) is a set: {} is None, {v} is v. *)
(*   - bytes are tuples of byte values, text is a tuple of one-character   *)
(*     strings; decode maps the first to the second.                       *)
(*   - A file name is a string; Chars gives its code points, on which      *)
(*     Python's string ordering and endswith are computed.                 *)
(***************************************************************************)
EXTENDS Integers, Sequences, FiniteSets, TLC

(* ------------------------------ bounds -------------------------------- *)

\* longest directory listing
MaxFiles == 3
\* longest declared list of binaries / of environment variables
MaxDeps == 2
\* largest exit code of a subprocess
MaxCode == 2
\* largest signal number that kills a subprocess (returncode -N)
MaxSig == 1
\* longest captured stdout
MaxOut == 2
\* longest captured stderr
MaxErr == 1

(* --------------------------- value domains ---------------------------- *)

BinNames == {"pip", "python", "ingestor"}

EnvNames == {"GCP_PROJECT", "TEMP_GCS"}

EnvValues == {"", "x"}

FileNames ==
    {"pkg-1.0.whl", "pkg-2.0.whl", "pkg-9.0.whl", "pkg-10.0.whl", "zz.txt", "x.whl.txt"}

\* 32 = space, 10 = newline, 97 = "a"
Bytes == {32, 10, 97}

RetCodes == (0 - MaxSig) .. MaxCode

ArgVals == {<<"a1">>, <<"a2">>}

FuncVals == {<<"r1">>, <<"r2">>}

PyNone == <<"<None>">>

PopenHandle == <<"<Popen>">>

Range(s) == {s[i] : i \in 1 .. Len(s)}

SeqsUpTo(S, n) == UNION {[1 .. k -> S] : k \in 0 .. n}

\* a directory listing: distinct names in the arbitrary order of os.listdir
Listings == {l \in SeqsUpTo(FileNames, MaxFiles) : Cardinality(Range(l)) = Len(l)}

Argvs == {<<"configure">>, <<"load">>, <<"load", "t1">>}

RunCmds == {<<"python", "-V">>, <<"ingestor", "load">>}

(* ----------------------------- strings -------------------------------- *)

\* code points of a file name
Chars(name) ==
    CASE name = "pkg-1.0.whl" -> <<112, 107, 103, 45, 49, 46, 48, 46, 119, 104, 108>>
      [] name = "pkg-2.0.whl" -> <<112, 107, 103, 45, 50, 46, 48, 46, 119, 104, 108>>
      [] name = "pkg-9.0.whl" -> <<112, 107, 103, 45, 57, 46, 48, 46, 119, 104, 108>>
      [] name = "pkg-10.0.whl" -> <<112, 107, 103, 45, 49, 48, 46, 48, 46, 119, 104, 108>>
      [] name = "zz.txt" -> <<122, 122, 46, 116, 120, 116>>
      [] name = "x.whl.txt" -> <<120, 46, 119, 104, 108, 46, 116, 120, 116>>

\* ".whl"
WhlSuffix == <<46, 119, 104, 108>>

\* str.endswith
EndsWith(cs, suffix) ==
    /\ Len(cs) >= Len(suffix)
    /\ SubSeq(cs, Len(cs) - Len(suffix) + 1, Len(cs)) = suffix

\* Python's < on str: code point by code point, a proper prefix is smaller
RECURSIVE LexLess(_, _)
LexLess(a, b) ==
    IF b = <<>> THEN FALSE
    ELSE IF a = <<>> THEN TRUE
    ELSE IF Head(a) # Head(b) THEN Head(a) < Head(b)
    ELSE LexLess(Tail(a), Tail(b))

StrLess(x, y) == LexLess(Chars(x), Chars(y))

\* insert x into the sorted list s, after the elements not greater than it
RECURSIVE Insert(_, _)
Insert(x, s) ==
    IF s = <<>> THEN <<x>>
    ELSE IF StrLess(x, Head(s)) THEN <<x>> \o s
    ELSE <<Head(s)>> \o Insert(x, Tail(s))

\* list.sort() on a list of str
RECURSIVE Sort(_)
Sort(s) == IF s = <<>> THEN <<>> ELSE Insert(s[Len(s)], Sort(SubSeq(s, 1, Len(s) - 1)))

\* [file for file in listing if file.endswith(".whl")]
RECURSIVE FilterWheels(_)
FilterWheels(l) ==
    IF l = <<>> THEN <<>>
    ELSE (IF EndsWith(Chars(Head(l)), WhlSuffix) THEN <<Head(l)>> ELSE <<>>)
         \o FilterWheels(Tail(l))

AvailableWheels(l) == Sort(FilterWheels(l))

\* the selection with the wrong end of the sorted list taken
PickFirst(sorted) == sorted[1]

\* available_wheels[-1]
PickWheel(sorted) == sorted[Len(sorted)]

\* os.path.join("./", wheel_file)
JoinDot(name) ==
    CASE name = "pkg-1.0.whl" -> "./pkg-1.0.whl"
      [] name = "pkg-2.0.whl" -> "./pkg-2.0.whl"
      [] name = "pkg-9.0.whl" -> "./pkg-9.0.whl"
      [] name = "pkg-10.0.whl" -> "./pkg-10.0.whl"
      [] name = "zz.txt" -> "./zz.txt"
      [] name = "x.whl.txt" -> "./x.whl.txt"

\* bytes.decode("utf-8") on the bytes of the model
Chr(b) == CASE b = 32 -> " " [] b = 10 -> "\n" [] b = 97 -> "a"

Decode(bs) == [i \in 1 .. Len(bs) |-> Chr(bs[i])]

IsSpace(c) == c \in {" ", "\n"}

RECURSIVE LStrip(_)
LStrip(t) == IF t # <<>> /\ IsSpace(Head(t)) THEN LStrip(Tail(t)) ELSE t

RECURSIVE RStrip(_)
RStrip(t) ==
    IF t # <<>> /\ IsSpace(t[Len(t)]) THEN RStrip(SubSeq(t, 1, Len(t) - 1)) ELSE t

\* the trimming with lstrip() in place of strip()
StripLeftOnly(t) == LStrip(t)

\* str.strip()
Strip(t) == RStrip(LStrip(t))

\* truth value of an optional bytes value: None and b"" are false
Truthy(opt) == opt # {} /\ opt # {<<>>}

TheVal(opt) == CHOOSE v \in opt : TRUE

(* -------------------------- depend_on helpers ------------------------- *)

\* shutil.which(binary): the resolved path, or None
Which(binary, p) == IF binary \in p THEN {binary} ELSE {}

\* the loop over binaries with the test inverted
RECURSIVE MissingBinaries_inverted(_, _)
MissingBinaries_inverted(bs, p) ==
    IF bs = <<>> THEN <<>>
    ELSE (IF Which(Head(bs), p) # {} THEN <<Head(bs)>> ELSE <<>>)
         \o MissingBinaries_inverted(Tail(bs), p)

\* the loop over binaries: collects every binary that does not resolve
RECURSIVE MissingBinaries(_, _)
MissingBinaries(bs, p) ==
    IF bs = <<>> THEN <<>>
    ELSE (IF Which(Head(bs), p) = {} THEN <<Head(bs)>> ELSE <<>>)
         \o MissingBinaries(Tail(bs), p)

\* os.environ.get(env): the value, or None
EnvGet(env, e) == IF env \in DOMAIN e THEN {e[env]} ELSE {}

\* `not value` for an optional str: None and "" are false
NotValue(opt) == opt = {} \/ opt = {""}

\* the loop over envs: collects every variable whose value is false
RECURSIVE MissingEnvs(_, _)
MissingEnvs(es, e) ==
    IF es = <<>> THEN <<>>
    ELSE (IF NotValue(EnvGet(Head(es), e)) THEN <<Head(es)>> ELSE <<>>)
         \o MissingEnvs(Tail(es), e)

\* the test with `and` in place of `or`
GateFails_and(mb, me) == mb # <<>> /\ me # <<>>

\* `if missing_binaries or missing_envs`
GateFails(mb, me) == mb # <<>> \/ me # <<>>

(* ----------------------------- _run helpers --------------------------- *)

\* the defaults with exit_on_error=False
DefaultOpts_no_exit ==
    [detach |-> FALSE, log_command |-> TRUE, error_callback |-> FALSE,
     exit_on_error |-> FALSE, capture_output |-> FALSE]

\* the defaults of _run's keyword parameters
DefaultOpts ==
    [detach |-> FALSE, log_command |-> TRUE, error_callback |-> FALSE,
     exit_on_error |-> TRUE, capture_output |-> FALSE]

RunOpts ==
    [detach : BOOLEAN, log_command : BOOLEAN, error_callback : BOOLEAN,
     exit_on_error : BOOLEAN, capture_output : BOOLEAN]

Outs == SeqsUpTo(Bytes, MaxOut)

Errs == SeqsUpTo(Bytes, MaxErr)

\* what subprocess.run collects of a stream: bytes when capture_output turned
\* the stream into a pipe, otherwise None
Captured(o, streams) == IF o.capture_output THEN {{b} : b \in streams} ELSE {{}}

\* the CompletedProcess of subprocess.run
Proc(rc, out, err) == [returncode |-> rc, stdout |-> out, stderr |-> err]

NoProc == [returncode |-> 0, stdout |-> {}, stderr |-> {}]

\* `if log_command`
PreEvents(o) == IF o.log_command THEN <<"log_command">> ELSE <<>>

\* the detach test dropped: every command is waited for
IsDetached_never(o) == FALSE

\* `if detach`
IsDetached(o) == o.detach

\* `if proc.returncode != 0`
Failed(p) == p.returncode # 0

\* `if error_callback`
CallsCallback(o) == o.error_callback

\* `if exit_on_error`, inside the failure branch
ExitsOnError(o, p) == Failed(p) /\ o.exit_on_error

\* the failure branch with the exit decision taken before the callback
FailureEvents_exit_first(o, p) ==
    <<"log_error">>
    \o (IF Truthy(p.stderr) THEN <<"log_stderr">> ELSE <<>>)
    \o (IF ExitsOnError(o, p) THEN <<"sys_exit">>
        ELSE IF CallsCallback(o) THEN <<"callback">> ELSE <<>>)

\* the failure branch, in program order
FailureEvents(o, p) ==
    <<"log_error">>
    \o (IF Truthy(p.stderr) THEN <<"log_stderr">> ELSE <<>>)
    \o (IF CallsCallback(o) THEN <<"callback">> ELSE <<>>)
    \o (IF ExitsOnError(o, p) THEN <<"sys_exit">> ELSE <<>>)

\* the value of the final two return statements
ReturnText(p) == IF Truthy(p.stdout) THEN Strip(Decode(TheVal(p.stdout))) ELSE <<>>

\* sys.exit(1) in place of sys.exit(proc.returncode)
SysExitArg_one(p) == 1

\* the argument of sys.exit
SysExitArg(p) == p.returncode

\* the status the operating system reports for sys.exit(c)
ExitStatus(c) == c % 256

\* a synchronous _run of a command whose process completed as p
RunOutcome(o, p) ==
    [events |-> PreEvents(o) \o <<"run">>
                \o (IF Failed(p) THEN FailureEvents(o, p) ELSE <<>>)
                \o (IF ExitsOnError(o, p) THEN <<>> ELSE <<"return">>),
     term |-> IF ExitsOnError(o, p) THEN "sys_exit" ELSE "returned",
     code |-> IF ExitsOnError(o, p) THEN ExitStatus(SysExitArg(p)) ELSE 0,
     ret |-> IF ExitsOnError(o, p) THEN {} ELSE {ReturnText(p)}]

\* subprocess.run / Popen raise FileNotFoundError when the program is not found
CanSpawn(c, p) == c[1] \in p

(* ------------------------ configure_cluster helpers ------------------- *)

\* the four commands of configure_cluster, in program order
ConfigureCmd(i, wheel) ==
    CASE i = 1 -> <<"python", "-V">>
      [] i = 2 -> <<"pip", "-V">>
      [] i = 3 -> <<"pip", "install", "-r", "requirements/requirements.txt">>
      [] i = 4 -> <<"pip", "install", JoinDot(wheel), "--upgrade">>

NumConfigureCmds == 4

\* the decorator arguments of configure_cluster
ConfigureBinaries == <<"pip">>

ConfigureEnvs == <<>>

(* ------------------------------- state -------------------------------- *)

VARIABLES
    entry,       \* "main": the script is run; "gate": a guarded function is called;
                 \* "run": _run is called
    argv,        \* sys.argv[1:]
    binaries,    \* depend_on(binaries=...)
    envs,        \* depend_on(envs=...)
    call_args,   \* the arguments the guarded function is called with
    path,        \* the binaries that resolve on the search path
    environ,     \* os.environ
    listing,     \* os.listdir("./")
    opts,        \* the keyword arguments of the _run call
    cmd,         \* the cmd of the _run call
    pc,          \* position of the process
    term,        \* "running", "returned", "sys_exit" or "exception"
    exit_code,   \* exit status of the process once it terminated
    retval,      \* the value returned to the caller, optional
    func_calls,  \* how often the guarded function was invoked
    func_args,   \* the arguments it was invoked with, optional
    func_ret,    \* the value it returned, optional
    wheel_file,  \* the selected artifact, optional
    started,     \* the subprocesses run so far: <<[cmd, rc]>>
    proc,        \* the CompletedProcess of the last synchronous run
    child,       \* the detached child process
    trace        \* what the process did, in order

vars ==
    <<entry, argv, binaries, envs, call_args, path, environ, listing, opts, cmd, pc,
      term, exit_code, retval, func_calls, func_args, func_ret, wheel_file, started,
      proc, child, trace>>

inputs == <<entry, argv, binaries, envs, call_args, path, environ, listing, opts, cmd>>

Environs == UNION {[D -> EnvValues] : D \in SUBSET EnvNames}

NoChild == [state |-> "none", rc |-> 0]

Init ==
    /\ entry \in {"main", "gate", "run"}
    /\ path \in SUBSET BinNames
    /\ argv \in (IF entry = "main" THEN Argvs ELSE {<<>>})
    /\ listing \in (IF entry = "main" /\ argv[1] = "configure" THEN Listings ELSE {<<>>})
    /\ binaries \in (IF entry = "gate" THEN SeqsUpTo(BinNames, MaxDeps)
                     ELSE {ConfigureBinaries})
    /\ envs \in (IF entry = "gate" THEN SeqsUpTo(EnvNames, MaxDeps) ELSE {ConfigureEnvs})
    /\ environ \in (IF entry = "gate" THEN Environs ELSE {<<>>})
    /\ call_args \in (IF entry = "gate" THEN ArgVals ELSE {<<>>})
    /\ opts \in (IF entry = "run" THEN RunOpts ELSE {DefaultOpts})
    /\ cmd \in (IF entry = "run" THEN RunCmds ELSE {<<>>})
    /\ pc = (CASE entry = "main" -> "main" [] entry = "gate" -> "wrapper"
               [] entry = "run" -> "run")
    /\ term = "running"
    /\ exit_code = 0
    /\ retval = {}
    /\ func_calls = 0
    /\ func_args = {}
    /\ func_ret = {}
    /\ wheel_file = {}
    /\ started = <<>>
    /\ proc = NoProc
    /\ child = NoChild
    /\ trace = <<>>

(* ------------------------------ actions ------------------------------- *)

\* the exit status of sys.exit(1) in wrapper_depend_on
GateExitCode == 1

\* an exception nobody catches ends the process: traceback, exit status 1
Uncaught(events) ==
    /\ trace' = trace \o events \o <<"raise">>
    /\ term' = "exception"
    /\ exit_code' = 1
    /\ pc' = "done"

\* __main__, task == "configure": configure_cluster() is called
MainConfigure ==
    /\ pc = "main"
    /\ argv[1] = "configure"
    /\ pc' = "wrapper"
    /\ UNCHANGED <<inputs, term, exit_code, retval, func_calls, func_args, func_ret,
                   wheel_file, started, proc, child, trace>>

\* __main__, any other task: _run(cmd=["ingestor", *sys.argv[1:]])
MainIngestor ==
    /\ pc = "main"
    /\ argv[1] # "configure"
    /\ LET c == <<"ingestor">> \o argv IN
       IF ~CanSpawn(c, path)
       THEN /\ Uncaught(PreEvents(DefaultOpts))
            /\ UNCHANGED <<started, proc>>
       ELSE \E rc \in RetCodes, out \in Captured(DefaultOpts, Outs),
                    err \in Captured(DefaultOpts, Errs) :
                LET p == Proc(rc, out, err)
                    r == RunOutcome(DefaultOpts, p)
                IN  /\ started' = Append(started, [cmd |-> c, rc |-> rc])
                    /\ proc' = p
                    /\ trace' = trace \o r.events
                    /\ term' = r.term
                    /\ exit_code' = r.code
                    /\ pc' = "done"
    /\ UNCHANGED <<inputs, retval, func_calls, func_args, func_ret, wheel_file, child>>

\* wrapper_depend_on up to the call of func, or to sys.exit(1)
WrapperDependOn ==
    /\ pc = "wrapper"
    /\ LET missing_binaries == MissingBinaries(binaries, path)
           missing_envs == MissingEnvs(envs, environ)
       IN  IF GateFails(missing_binaries, missing_envs)
           THEN /\ trace' = trace \o <<"gate_error", "sys_exit">>
                /\ term' = "sys_exit"
                /\ exit_code' = GateExitCode
                /\ pc' = "done"
                /\ UNCHANGED <<func_calls, func_args>>
           ELSE /\ trace' = trace \o <<"call_func">>
                /\ func_calls' = func_calls + 1
                /\ func_args' = {call_args}
                /\ pc' = (IF entry = "gate" THEN "func" ELSE "select")
                /\ UNCHANGED <<term, exit_code>>
    /\ UNCHANGED <<inputs, retval, func_ret, wheel_file, started, proc, child>>

\* the guarded function returns a value and wrapper_depend_on returns it
GuardedFunc ==
    /\ pc = "func"
    /\ \E v \in FuncVals :
           /\ func_ret' = {v}
           /\ retval' = {v}
    /\ trace' = trace \o <<"return">>
    /\ term' = "returned"
    /\ pc' = "done"
    /\ UNCHANGED <<inputs, exit_code, func_calls, func_args, wheel_file, started, proc,
                   child>>

\* configure_cluster: list the directory, keep the wheels, sort, take the last;
\* [-1] of an empty list raises IndexError
SelectWheel ==
    /\ pc = "select"
    /\ LET available_wheels == AvailableWheels(listing) IN
       IF available_wheels = <<>>
       THEN /\ Uncaught(<<"listdir">>)
            /\ UNCHANGED wheel_file
       ELSE /\ wheel_file' = {PickWheel(available_wheels)}
            /\ trace' = trace \o <<"listdir">>
            /\ pc' = "cmd"
            /\ UNCHANGED <<term, exit_code>>
    /\ UNCHANGED <<inputs, retval, func_calls, func_args, func_ret, started, proc, child>>

\* configure_cluster: the next of the four _run calls, with _run's defaults
ConfigureRun ==
    /\ pc = "cmd"
    /\ LET i == Len(started) + 1
           c == ConfigureCmd(i, TheVal(wheel_file))
       IN  IF ~CanSpawn(c, path)
           THEN /\ Uncaught(PreEvents(DefaultOpts))
                /\ UNCHANGED <<started, proc>>
           ELSE \E rc \in RetCodes, out \in Captured(DefaultOpts, Outs),
                        err \in Captured(DefaultOpts, Errs) :
                    LET p == Proc(rc, out, err)
                        r == RunOutcome(DefaultOpts, p)
                    IN  /\ started' = Append(started, [cmd |-> c, rc |-> rc])
                        /\ proc' = p
                        /\ trace' = trace \o r.events
                        /\ term' = (IF r.term = "sys_exit" THEN "sys_exit" ELSE term)
                        /\ exit_code' = r.code
                        /\ pc' = (IF r.term = "sys_exit" THEN "done"
                                  ELSE IF i = NumConfigureCmds THEN "finish"
                                  ELSE "cmd")
    /\ UNCHANGED <<inputs, retval, func_calls, func_args, func_ret, wheel_file, child>>

\* configure_cluster after the last _run: the success line, then reload(site)
FinishEvents(ok) == <<"log_success", "reload">> \o (IF ok THEN <<"return">> ELSE <<>>)

\* the end of configure_cluster; an error of reload(site) reaches the caller
ConfigureFinish ==
    /\ pc = "finish"
    /\ \E ok \in BOOLEAN :
           IF ok
           THEN /\ trace' = trace \o FinishEvents(ok)
                /\ func_ret' = {PyNone}
                /\ retval' = {PyNone}
                /\ term' = "returned"
                /\ exit_code' = 0
                /\ pc' = "done"
           ELSE /\ Uncaught(FinishEvents(ok))
                /\ UNCHANGED <<retval, func_ret>>
    /\ UNCHANGED <<inputs, func_calls, func_args, wheel_file, started, proc, child>>

\* one call of _run(cmd, **opts)
RunCall ==
    /\ pc = "run"
    /\ IF ~CanSpawn(cmd, path)
       THEN /\ Uncaught(PreEvents(opts))
            /\ UNCHANGED <<started, proc, child, retval>>
       ELSE IF IsDetached(opts)
       THEN /\ child' = [state |-> "running", rc |-> 0]
            /\ trace' = trace \o PreEvents(opts) \o <<"popen", "return">>
            /\ retval' = {PopenHandle}
            /\ term' = "returned"
            /\ pc' = "done"
            /\ UNCHANGED <<started, proc, exit_code>>
       ELSE \E rc \in RetCodes, out \in Captured(opts, Outs),
                    err \in Captured(opts, Errs) :
                LET p == Proc(rc, out, err)
                    r == RunOutcome(opts, p)
                IN  /\ started' = Append(started, [cmd |-> cmd, rc |-> rc])
                    /\ proc' = p
                    /\ trace' = trace \o r.events
                    /\ retval' = r.ret
                    /\ term' = r.term
                    /\ exit_code' = r.code
                    /\ pc' = "done"
                    /\ UNCHANGED child
    /\ UNCHANGED <<inputs, func_calls, func_args, func_ret, wheel_file>>

\* the detached child ends, whenever and however it does
ChildExit ==
    /\ child.state = "running"
    /\ \E rc \in RetCodes : child' = [state |-> "exited", rc |-> rc]
    /\ UNCHANGED <<inputs, pc, term, exit_code, retval, func_calls, func_args, func_ret,
                   wheel_file, started, proc, trace>>

Next ==
    \/ MainConfigure
    \/ MainIngestor
    \/ WrapperDependOn
    \/ GuardedFunc
    \/ SelectWheel
    \/ ConfigureRun
    \/ ConfigureFinish
    \/ RunCall
    \/ ChildExit

Spec == Init /\ [][Next]_vars

(* ------------------------------ properties ---------------------------- *)

\* the run goes through the dependency gate
GateCalled == entry = "gate" \/ (entry = "main" /\ argv[1] = "configure")

\* wrapper_depend_on has taken its decision
GateDone == GateCalled /\ pc \notin {"main", "wrapper"}

SomeBinaryUnresolvable == \E i \in 1 .. Len(binaries) : binaries[i] \notin path

SomeEnvUnset == \E i \in 1 .. Len(envs) : envs[i] \notin DOMAIN environ

AllBinariesResolve == \A i \in 1 .. Len(binaries) : binaries[i] \in path

AllEnvsSet == \A i \in 1 .. Len(envs) : envs[i] \in DOMAIN environ

AllEnvsNonEmpty ==
    \A i \in 1 .. Len(envs) : envs[i] \in DOMAIN environ /\ environ[envs[i]] # ""

Count(ev) == Cardinality({i \in 1 .. Len(trace) : trace[i] = ev})

Last(s) == s[Len(s)]

\* a synchronous _run call of entry "run" whose subprocess has ended
SyncRunDone == entry = "run" /\ ~opts.detach /\ started # <<>>

\* C1: when a declared binary does not resolve or a declared environment
\* variable is unset, the guarded function is never invoked and the process
\* terminates with exit code 1.
C1_MissingDependencyExits ==
    (GateDone /\ (SomeBinaryUnresolvable \/ SomeEnvUnset))
        => /\ func_calls = 0
           /\ func_args = {}
           /\ "call_func" \notin Range(trace)
           /\ term = "sys_exit"
           /\ exit_code = 1

\* C1 witness: every binary resolves, one variable is unset, the gate exited
C1_Witness ==
    /\ entry = "gate"
    /\ GateDone
    /\ binaries # <<>>
    /\ AllBinariesResolve
    /\ SomeEnvUnset
    /\ term = "sys_exit"
    /\ func_calls = 0

\* the guarded function ran once with the caller's arguments, and once it
\* returned, the call returned its value and the process went on
GuardedOnce ==
    /\ func_calls = 1
    /\ func_args = {call_args}
    /\ "gate_error" \notin Range(trace)
    /\ func_ret # {} => (retval = func_ret /\ term = "returned")
    /\ (entry = "gate" /\ pc = "done") => (func_ret # {} /\ term = "returned")

\* C2 as stated: when every declared binary resolves and every declared
\* environment variable is set, the guarded function is invoked exactly once
\* with the original arguments and its value is returned unchanged, without
\* the process terminating.
C2_AllSetRunsOnce == (entry = "gate" /\ GateDone /\ AllBinariesResolve /\ AllEnvsSet) => GuardedOnce

\* C2 amended: when every declared binary resolves and every declared
\* environment variable is set to a non-empty value, the guarded function is
\* invoked exactly once with the original arguments, the gate does not
\* terminate the process, and the value the function returns is returned
\* unchanged.
C2_AllNonEmptyRunsOnce ==
    (GateDone /\ AllBinariesResolve /\ AllEnvsNonEmpty) => GuardedOnce

\* C2 witness: a gate with binaries and variables declared let the call
\* through and the function's value came back
C2_Witness ==
    /\ entry = "gate"
    /\ binaries # <<>>
    /\ envs # <<>>
    /\ AllBinariesResolve
    /\ AllEnvsNonEmpty
    /\ func_calls = 1
    /\ func_ret = {<<"r2">>}
    /\ retval = {<<"r2">>}
    /\ term = "returned"

\* the last _run call was synchronous with the default error handling
DefaultRunDone ==
    /\ started # <<>>
    /\ ~opts.detach
    /\ opts.exit_on_error
    /\ ~opts.error_callback

\* C3: a synchronous _run with default settings whose subprocess ends with
\* exit code c # 0 terminates the process with exit code exactly c and
\* returns nothing to its caller.
C3_FailFastExitCode ==
    (DefaultRunDone /\ Last(started).rc > 0)
        => /\ term = "sys_exit"
           /\ exit_code = Last(started).rc
           /\ retval = {}
           /\ Last(trace) = "sys_exit"
           /\ pc = "done"

\* C3 witness: a default _run whose command ended with exit code 2
C3_Witness ==
    /\ entry = "run"
    /\ opts = DefaultOpts
    /\ started # <<>>
    /\ Last(started).rc = 2
    /\ term = "sys_exit"
    /\ exit_code = 2

\* t is s without its leading and trailing whitespace
IsTrimOf(t, s) ==
    /\ \E i \in 1 .. Len(s) + 1 : \E j \in 0 .. Len(s) :
           /\ t = SubSeq(s, i, j)
           /\ \A k \in 1 .. Len(s) : (k < i \/ k > j) => s[k] \in {" ", "\n"}
    /\ t # <<>> => (t[1] \notin {" ", "\n"} /\ t[Len(t)] \notin {" ", "\n"})

\* C4: a synchronous _run with exit_on_error=false whose subprocess ends
\* with a non-zero exit code does not terminate the process and returns the
\* trimmed stdout when stdout was captured and non-empty, else the empty text.
C4_NoExitReturnsTrimmedStdout ==
    (SyncRunDone /\ ~opts.exit_on_error /\ Last(started).rc # 0)
        => /\ term = "returned"
           /\ exit_code = 0
           /\ "sys_exit" \notin Range(trace)
           /\ \E t \in retval :
                  IF proc.stdout # {} /\ proc.stdout # {<<>>}
                  THEN \E out \in proc.stdout : IsTrimOf(t, Decode(out))
                  ELSE t = <<>>

\* C4 witness: the command failed after printing "a\n", and "a" came back
C4_Witness ==
    /\ SyncRunDone
    /\ ~opts.exit_on_error
    /\ Last(started).rc # 0
    /\ proc.stdout = {<<97, 10>>}
    /\ retval = {<<"a">>}
    /\ term = "returned"

\* C5: a _run with detach=true returns right after spawning, without
\* waiting, capturing output or observing an exit code; whatever the child
\* does later, the launcher logs no failure, invokes no callback and does not
\* terminate because of it.
C5_DetachFireAndForget ==
    (entry = "run" /\ opts.detach /\ pc = "done" /\ term # "exception")
        => /\ child.state \in {"running", "exited"}
           /\ term = "returned"
           /\ retval = {PopenHandle}
           /\ Last(trace) = "return"
           /\ trace[Len(trace) - 1] = "popen"
           /\ started = <<>>
           /\ proc = NoProc
           /\ exit_code = 0
           /\ Range(trace) \cap {"run", "log_error", "log_stderr", "callback", "sys_exit"} = {}

\* C5 witness: the detached child failed after the launcher returned, with a
\* callback supplied and exit_on_error on
C5_Witness ==
    /\ entry = "run"
    /\ opts.detach
    /\ opts.error_callback
    /\ opts.exit_on_error
    /\ child.state = "exited"
    /\ child.rc # 0
    /\ term = "returned"

\* the run is the "configure" task
ConfigureTask == entry = "main" /\ argv[1] = "configure"

\* every command but the last one run exited zero
OnlyLastMayFail == \A i \in 1 .. Len(started) - 1 : started[i].rc = 0

\* C6: a run of the "configure" task ends, a failure of the module refresh
\* aside, in exactly one of three ways: exit code 1 from the dependency gate,
\* the exit code of the first failing subcommand, or normal completion after
\* every step succeeded.
C6_ConfigureExitCodes ==
    (ConfigureTask /\ pc = "done" /\ "reload" \notin Range(trace))
        => \/ /\ "gate_error" \in Range(trace)
              /\ term = "sys_exit"
              /\ exit_code = 1
           \/ /\ term = "sys_exit"
              /\ started # <<>>
              /\ OnlyLastMayFail
              /\ Last(started).rc # 0
              /\ exit_code = Last(started).rc % 256
           \/ /\ term = "returned"
              /\ exit_code = 0

\* C7: configure_cluster runs its four commands in program order, each one
\* only after every earlier one exited zero, none after a failure and none
\* twice.
C7_ConfigureOrder ==
    ConfigureTask
        => /\ Len(started) <= 4
           /\ Len(started) >= 1 => started[1].cmd = <<"python", "-V">>
           /\ Len(started) >= 2 => started[2].cmd = <<"pip", "-V">>
           /\ Len(started) >= 3 =>
                  started[3].cmd = <<"pip", "install", "-r", "requirements/requirements.txt">>
           /\ Len(started) >= 4 =>
                  \E w \in wheel_file :
                      started[4].cmd = <<"pip", "install", JoinDot(w), "--upgrade">>
           /\ OnlyLastMayFail
           /\ (started # <<>> /\ Last(started).rc # 0) => (pc = "done" /\ term = "sys_exit")
           /\ Count("run") = Len(started)

\* C7 witness: three commands exited zero and the fourth, the install of the
\* selected wheel, failed
C7_Witness ==
    /\ ConfigureTask
    /\ Len(started) = 4
    /\ started[4].rc = 2
    /\ started[4].cmd = <<"pip", "install", "./pkg-9.0.whl", "--upgrade">>
    /\ term = "sys_exit"

\* C8: the success confirmation is logged only after every bootstrap step,
\* the module refresh included, completed without error: no run logs it and
\* then fails in the refresh.
C8_SuccessLoggedOnlyOnFullSuccess ==
    (ConfigureTask /\ "log_success" \in Range(trace)) => term # "exception"

\* C9: with an error_callback supplied, a synchronous _run invokes it exactly
\* once when the exit code is non-zero, before the exit decision, and never
\* when the exit code is zero.
C9_CallbackOnceBeforeExit ==
    (SyncRunDone /\ opts.error_callback)
        => IF Last(started).rc = 0
           THEN Count("callback") = 0
           ELSE /\ Count("callback") = 1
                /\ trace[Len(trace) - 1] = "callback"
                /\ Last(trace) = (IF opts.exit_on_error THEN "sys_exit" ELSE "return")
                /\ Count("sys_exit") + Count("return") = 1

\* C9 witness: the command failed, the callback ran, then the process exited
C9_Witness ==
    /\ SyncRunDone
    /\ opts.error_callback
    /\ opts.exit_on_error
    /\ Last(started).rc # 0
    /\ Count("callback") = 1
    /\ term = "sys_exit"

\* every order in which the directory may list the same names
Orders(l) == {m \in [1 .. Len(l) -> Range(l)] : Range(m) = Range(l)}

\* the names of the model that end with ".whl"
WheelNames == {"pkg-1.0.whl", "pkg-2.0.whl", "pkg-9.0.whl", "pkg-10.0.whl"}

\* C10: artifact selection returns the greatest name with the artifact
\* suffix under plain string ordering, ignores the other names, and gives the
\* same file for every listing order of the same names.
C10_SelectsLexicalMax ==
    \A w \in wheel_file :
        LET wheels == Range(listing) \cap WheelNames IN
        /\ w \in wheels
        /\ \A f \in wheels : ~LexLess(Chars(w), Chars(f))
        /\ \A m \in Orders(listing) : PickWheel(AvailableWheels(m)) = w
        /\ wheels = {"pkg-1.0.whl", "pkg-2.0.whl"} => w = "pkg-2.0.whl"
        /\ wheels = {"pkg-9.0.whl", "pkg-10.0.whl"} => w = "pkg-9.0.whl"

\* C10 witness: of pkg-10.0.whl, zz.txt and pkg-9.0.whl, pkg-9.0.whl is chosen
C10_Witness ==
    /\ listing = <<"pkg-10.0.whl", "zz.txt", "pkg-9.0.whl">>
    /\ wheel_file = {"pkg-9.0.whl"}

====
